---- MODULE Spec2Model ----
(***************************************************************************)
(* MayaCode Backend API (server/main.py): the module-level state set up at *)
(* import time and the five route handlers /health, /, /user, /pdf, /chat. *)
(*                                                                         *)
(* Every handler is an `async def` without an await, so the event loop     *)
(* runs one handler at a time.  What can move while a handler is in        *)
(* progress is the world outside the process: the file at PDF_FILE_PATH    *)
(* (between os.path.exists and open) and the remote completion service     *)
(* (between the call and its return or exception).                         *)
(*                                                                         *)
(* Strings built with f-strings are sequences of fragments, so that        *)
(* "contains" and "is exactly" are different questions.  Python's None is  *)
(* the reserved string PyNone where the other values are strings, and the  *)
(* record NoneObj where they are objects.                                  *)
(***************************************************************************)
EXTENDS Integers, Sequences, FiniteSets, TLC

VARIABLES
    environ,          \* os.environ after load_dotenv(): name -> string
    openai_api_key,   \* module global, main.py:20
    openai_client,    \* module global, main.py:21
    user_data,        \* the constants imported from data.user_data, main.py:14
    pdf_file,         \* the file system entry at PDF_FILE_PATH
    pc,               \* position of the handler in progress, "idle" between requests
    request,          \* the request being handled, or the last one handled
    local,            \* the handler's local variables
    remote_log,       \* arguments of each remote completion call of this request
    remote_outcome,   \* what the remote call of this request returned or raised
    response          \* the response of the last request handled

vars == <<environ, openai_api_key, openai_client, user_data, pdf_file, pc,
          request, local, remote_log, remote_outcome, response>>

-----------------------------------------------------------------------------
(* Bounds of the model *)

MaxFileLen == 3
MaxMsgs == 2
MaxChoices == 2
MaxTime == 1

-----------------------------------------------------------------------------
(* Python values *)

PyNone == "<None>"
NoneObj == [kind |-> "None"]

\* bool(s) of a str-or-None value: None and "" are falsy
Truthy(s) == s # PyNone /\ s # ""

\* os.getenv(name, default)
GetEnv(env, name, default) == IF name \in DOMAIN env THEN env[name] ELSE default

Min(a, b) == IF a <= b THEN a ELSE b

Contains(fragments, s) == \E i \in 1..Len(fragments) : fragments[i] = s

-----------------------------------------------------------------------------
(* Configuration and request models, main.py:24-45 *)

PDF_FILE_PATH == "document.pdf"

DefaultModel == "gpt-3.5-turbo"
DefaultMaxTokens == 150
\* temperature is a float; the model counts it in tenths (0.7 is 7)
DefaultTemperature == 7

\* ChatMessage: role is a plain str, any string validates
ChatMessages ==
    { [role |-> "user", content |-> "Hello"],
      [role |-> "system", content |-> "Be brief"],
      [role |-> "tool", content |-> "x"] }

MessageLists == UNION { [1..n -> ChatMessages] : n \in 0..MaxMsgs }

\* JSON bodies a client can post: the optional fields left out or all given,
\* or a body that does not fit ChatRequest (no messages field)
ChatBodies ==
    { [messages |-> m] : m \in MessageLists }
    \cup { [messages |-> m, model |-> "gpt-4", max_tokens |-> 16, temperature |-> 0] :
             m \in MessageLists }
    \cup { [model |-> "gpt-4"] }

\* pydantic's validation of the body against ChatRequest
WellFormed(body) == "messages" \in DOMAIN body

\* ChatRequest(**body): the declared defaults fill the fields left out
ChatRequest(body) ==
    [ messages |-> body.messages,
      model |-> IF "model" \in DOMAIN body THEN body.model ELSE DefaultModel,
      max_tokens |-> IF "max_tokens" \in DOMAIN body THEN body.max_tokens
                     ELSE DefaultMaxTokens,
      temperature |-> IF "temperature" \in DOMAIN body THEN body.temperature
                      ELSE DefaultTemperature ]

-----------------------------------------------------------------------------
(* Exceptions *)

\* The classes that can reach the except clauses and their base class
\* (openai 1.x: AuthenticationError and RateLimitError derive from
\* APIStatusError, APIStatusError and APIConnectionError from APIError).
BaseClass ==
    [ AuthenticationError |-> "APIStatusError",
      RateLimitError      |-> "APIStatusError",
      BadRequestError     |-> "APIStatusError",
      APIStatusError      |-> "APIError",
      APITimeoutError     |-> "APIConnectionError",
      APIConnectionError  |-> "APIError",
      APIError            |-> "OpenAIError",
      OpenAIError         |-> "Exception",
      HTTPException       |-> "Exception",
      IndexError          |-> "Exception",
      OSError             |-> "Exception",
      FileNotFoundError   |-> "OSError",
      Exception           |-> "Exception" ]

RECURSIVE IsSubclass(_, _)
IsSubclass(cls, base) ==
    IF cls = base THEN TRUE
    ELSE IF cls = "Exception" THEN FALSE
    ELSE IsSubclass(BaseClass[cls], base)

IsInstance(exc, base) == IsSubclass(exc.cls, base)

\* raise HTTPException(status_code=..., detail=...)
HTTPException(status, detail) ==
    [cls |-> "HTTPException", status_code |-> status, detail |-> detail]

\* an exception of class cls whose message is text
Raised(cls, text) == [cls |-> cls, text |-> <<text>>]

StatusText(status) ==
    CASE status = 200 -> "200"
      [] status = 401 -> "401"
      [] status = 404 -> "404"
      [] status = 422 -> "422"
      [] status = 429 -> "429"
      [] status = 500 -> "500"

\* str(e): starlette's HTTPException renders as "<status_code>: <detail>",
\* the other exceptions as their message
Str(exc) ==
    IF exc.cls = "HTTPException"
    THEN <<StatusText(exc.status_code), ": ">> \o exc.detail
    ELSE exc.text

\* FastAPI's rendering of an HTTPException that leaves a handler
ErrorResponse(exc) ==
    [status_code |-> exc.status_code, body |-> [detail |-> exc.detail]]

\* FastAPI's rendering of a handler's return value
OkResponse(body) == [status_code |-> 200, body |-> body]

-----------------------------------------------------------------------------
(* base64.b64encode(...).decode('utf-8'), main.py:105 *)

ByteValues == {37, 255}

FileContents == UNION { [1..n -> ByteValues] : n \in 0..MaxFileLen }

\* ASCII code of the base64 digit with value v (RFC 4648 standard alphabet)
B64Digit(v) ==
    IF v < 26 THEN 65 + v
    ELSE IF v < 52 THEN 97 + (v - 26)
    ELSE IF v < 62 THEN 48 + (v - 52)
    ELSE IF v = 62 THEN 43
    ELSE 47

\* one group of 1 to 3 bytes as 4 ASCII codes, padded with "=" (61)
EncodeGroup(g) ==
    LET b1 == g[1]
        b2 == IF Len(g) >= 2 THEN g[2] ELSE 0
        b3 == IF Len(g) >= 3 THEN g[3] ELSE 0
        n  == b1 * 65536 + b2 * 256 + b3
        c1 == B64Digit(n \div 262144)
        c2 == B64Digit((n \div 4096) % 64)
        c3 == B64Digit((n \div 64) % 64)
        c4 == B64Digit(n % 64)
    IN  IF Len(g) = 3 THEN <<c1, c2, c3, c4>>
        ELSE IF Len(g) = 2 THEN <<c1, c2, c3, 61>>
        ELSE <<c1, c2, 61, 61>>

RECURSIVE b64encode(_)
b64encode(bytes) ==
    IF bytes = <<>> THEN <<>>
    ELSE LET k == Min(3, Len(bytes))
         IN  EncodeGroup(SubSeq(bytes, 1, k)) \o b64encode(SubSeq(bytes, k + 1, Len(bytes)))

Upper ==
    <<"A","B","C","D","E","F","G","H","I","J","K","L","M",
      "N","O","P","Q","R","S","T","U","V","W","X","Y","Z">>

Lower ==
    <<"a","b","c","d","e","f","g","h","i","j","k","l","m",
      "n","o","p","q","r","s","t","u","v","w","x","y","z">>

Digits == <<"0","1","2","3","4","5","6","7","8","9">>

\* the character with ASCII code c
Chr(c) ==
    IF c \in 65..90 THEN Upper[c - 64]
    ELSE IF c \in 97..122 THEN Lower[c - 96]
    ELSE IF c \in 48..57 THEN Digits[c - 47]
    ELSE CASE c = 43 -> "+"
           [] c = 47 -> "/"
           [] c = 61 -> "="

\* bytes.decode('utf-8') of ASCII bytes: one character per byte
decode_utf8(bytes) == [i \in 1..Len(bytes) |-> Chr(bytes[i])]

-----------------------------------------------------------------------------
(* Module-level initialisation, main.py:14-24 *)

\* faulty variant: the client is never constructed
MakeClient_Never(key) == NoneObj

\* OpenAI(api_key=openai_api_key) if openai_api_key else None
MakeClient(key) == IF Truthy(key) THEN [kind |-> "OpenAI", api_key |-> key] ELSE NoneObj

\* DEFAULT_USER_PROFILE, SUGGESTED_ACTIONS_DATA, DOCUMENTS_DATA
UserDataModule ==
    [ DEFAULT_USER_PROFILE   |-> [name |-> "Maya", email |-> "maya@example.com"],
      SUGGESTED_ACTIONS_DATA |-> <<"action-1", "action-2">>,
      DOCUMENTS_DATA         |-> <<"document-1">> ]

\* the process environment: OPENAI_API_KEY unset, set to the empty string or
\* set to a key; API_VERSION is left unset
Environments ==
    UNION { [names -> {"", "sk-test"}] : names \in SUBSET {"OPENAI_API_KEY"} }

NoFile == [exists |-> FALSE, content |-> <<>>]
File(bytes) == [exists |-> TRUE, content |-> bytes]

NoRequest == [route |-> "none"]
NoResponse == [status_code |-> 0, body |-> [none |-> TRUE]]
NoLocal == [path_exists |-> FALSE, pdf_content |-> <<>>, messages |-> <<>>]
NoOutcome == [kind |-> "none"]

Init ==
    /\ environ \in Environments
    /\ openai_api_key = GetEnv(environ, "OPENAI_API_KEY", PyNone)
    /\ openai_client = MakeClient(openai_api_key)
    /\ user_data = UserDataModule
    /\ pdf_file \in {NoFile} \cup { File(b) : b \in FileContents }
    /\ pc = "idle"
    /\ request = NoRequest
    /\ local = NoLocal
    /\ remote_log = <<>>
    /\ remote_outcome = NoOutcome
    /\ response = NoResponse

\* a request is taken when no handler is in progress; its working state is fresh
Begin(route, body) ==
    /\ pc = "idle"
    /\ request' = [route |-> route, body |-> body]

NoBody == [none |-> TRUE]

\* the handler has returned or raised: its response is delivered
Finish(resp) ==
    /\ response' = resp
    /\ pc' = "idle"

-----------------------------------------------------------------------------
(* GET /health, main.py:68-77 *)

\* os.path.exists(PDF_FILE_PATH)
Exists(file) == file.exists

\* faulty variant: pdf_exists reported without probing the file system
HealthBody_AssumesPdf(now, env, file, key) ==
    [ success |-> TRUE,
      message |-> "MayaCode Backend API is running",
      timestamp |-> now,
      version |-> GetEnv(env, "API_VERSION", "v1"),
      pdf_exists |-> TRUE,
      openai_configured |-> Truthy(key) ]

HealthBody(now, env, file, key) ==
    [ success |-> TRUE,
      message |-> "MayaCode Backend API is running",
      timestamp |-> now,
      version |-> GetEnv(env, "API_VERSION", "v1"),
      pdf_exists |-> Exists(file),
      openai_configured |-> Truthy(key) ]

health_check ==
    /\ Begin("/health", NoBody)
    /\ \E now \in 0..MaxTime :
         Finish(OkResponse(HealthBody(now, environ, pdf_file, openai_api_key)))
    /\ local' = NoLocal
    /\ remote_log' = <<>>
    /\ remote_outcome' = NoOutcome
    /\ UNCHANGED <<environ, openai_api_key, openai_client, user_data, pdf_file>>

-----------------------------------------------------------------------------
(* GET /, main.py:80-82 *)

welcome ==
    /\ Begin("/", NoBody)
    /\ Finish(OkResponse([message |-> "FastAPI Backend is running!"]))
    /\ local' = NoLocal
    /\ remote_log' = <<>>
    /\ remote_outcome' = NoOutcome
    /\ UNCHANGED <<environ, openai_api_key, openai_client, user_data, pdf_file>>

-----------------------------------------------------------------------------
(* GET /user, main.py:84-96 *)

\* {**DEFAULT_USER_PROFILE, "suggestedActions": ..., "documents": ...}:
\* the later keys win over the profile's
MergeUserData(data) ==
    [ k \in DOMAIN data.DEFAULT_USER_PROFILE \cup {"suggestedActions", "documents"} |->
        IF k = "suggestedActions" THEN data.SUGGESTED_ACTIONS_DATA
        ELSE IF k = "documents" THEN data.DOCUMENTS_DATA
        ELSE data.DEFAULT_USER_PROFILE[k] ]

get_user_data ==
    /\ Begin("/user", NoBody)
    /\ Finish(OkResponse([success |-> TRUE, data |-> MergeUserData(user_data)]))
    /\ local' = NoLocal
    /\ remote_log' = <<>>
    /\ remote_outcome' = NoOutcome
    /\ UNCHANGED <<environ, openai_api_key, openai_client, user_data, pdf_file>>

-----------------------------------------------------------------------------
(* GET /pdf, main.py:98-108 *)

\* except Exception as e, main.py:107-108: every exception raised in the try
\* block, the handler's own HTTPException included, becomes a 500
PdfExcept(exc) ==
    HTTPException(500, <<"Error processing PDF file: ">> \o Str(exc))

PdfNotFound ==
    HTTPException(404, <<"PDF file '", PDF_FILE_PATH, "' not found">>)

\* faulty variant: the file opened in a writing mode, which truncates it
FileAfterRead_Truncating(file) == [file EXCEPT !.content = <<>>]

\* open(PDF_FILE_PATH, 'rb') and read(): the file is left as it is
FileAfterRead(file) == file

\* faulty variant: the last byte read is left out of the encoding
PdfData_ShortRead(pdf_content) ==
    decode_utf8(b64encode(SubSeq(pdf_content, 1, Len(pdf_content) - 1)))

\* base64.b64encode(pdf_content).decode('utf-8')
PdfData(pdf_content) == decode_utf8(b64encode(pdf_content))

\* main.py:100-102: the existence check
get_pdf_base64_check ==
    /\ Begin("/pdf", NoBody)
    /\ local' = [NoLocal EXCEPT !.path_exists = Exists(pdf_file)]
    /\ IF ~Exists(pdf_file)
       THEN Finish(ErrorResponse(PdfExcept(PdfNotFound)))
       ELSE /\ pc' = "pdf_open"
            /\ response' = NoResponse
    /\ remote_log' = <<>>
    /\ remote_outcome' = NoOutcome
    /\ UNCHANGED <<environ, openai_api_key, openai_client, user_data, pdf_file>>

\* main.py:103-108: open, read, encode; io_ok is whether the operating system
\* lets the read through
get_pdf_base64_read ==
    /\ pc = "pdf_open"
    /\ \E io_ok \in BOOLEAN :
         IF ~pdf_file.exists
         THEN /\ Finish(ErrorResponse(PdfExcept(
                    Raised("FileNotFoundError", "[Errno 2] No such file or directory"))))
              /\ UNCHANGED <<local, pdf_file>>
         ELSE IF ~io_ok
         THEN /\ Finish(ErrorResponse(PdfExcept(
                    Raised("OSError", "[Errno 5] Input/output error"))))
              /\ UNCHANGED <<local, pdf_file>>
         ELSE /\ local' = [local EXCEPT !.pdf_content = pdf_file.content]
              /\ pdf_file' = FileAfterRead(pdf_file)
              /\ Finish(OkResponse([success |-> TRUE,
                                    data |-> PdfData(pdf_file.content)]))
    /\ UNCHANGED <<environ, openai_api_key, openai_client, user_data, request,
                   remote_log, remote_outcome>>

-----------------------------------------------------------------------------
(* POST /chat, main.py:110-137 *)

\* faulty variant: the messages forwarded in reverse order
ToMessages_Reversed(msgs) ==
    [i \in 1..Len(msgs) |-> [role |-> msgs[Len(msgs) + 1 - i].role,
                            content |-> msgs[Len(msgs) + 1 - i].content]]

\* [{"role": msg.role, "content": msg.content} for msg in chat_request.messages]
ToMessages(msgs) ==
    [i \in 1..Len(msgs) |-> [role |-> msgs[i].role, content |-> msgs[i].content]]

\* faulty variant: the remote service invoked a second time
CallRemote_Twice(log, args) == Append(Append(log, args), args)

\* openai_client.chat.completions.create(...): the one place the remote
\* service is invoked; log is the invocations made so far for this request
CallRemote(log, args) == Append(log, args)

\* faulty variant: the APIError clause written before its subclasses
ChatExcept_GenericFirst(exc) ==
    IF IsInstance(exc, "APIError")
    THEN HTTPException(500, <<"OpenAI API error: ">> \o Str(exc))
    ELSE IF IsInstance(exc, "AuthenticationError")
    THEN HTTPException(401, <<"Invalid OpenAI API key">>)
    ELSE IF IsInstance(exc, "RateLimitError")
    THEN HTTPException(429, <<"OpenAI API rate limit exceeded">>)
    ELSE HTTPException(500, <<"Error processing chat request: ">> \o Str(exc))

\* the except clauses, main.py:130-137, tried in the order written
ChatExcept(exc) ==
    IF IsInstance(exc, "AuthenticationError")
    THEN HTTPException(401, <<"Invalid OpenAI API key">>)
    ELSE IF IsInstance(exc, "RateLimitError")
    THEN HTTPException(429, <<"OpenAI API rate limit exceeded">>)
    ELSE IF IsInstance(exc, "APIError")
    THEN HTTPException(500, <<"OpenAI API error: ">> \o Str(exc))
    ELSE HTTPException(500, <<"Error processing chat request: ">> \o Str(exc))

\* FastAPI's answer to a body that fails validation; the handler is not entered
ValidationError ==
    [status_code |-> 422, body |-> [detail |-> <<"messages: Field required">>]]

\* what the remote service can answer: a completion with some choices ...
Choices == { [message |-> [content |-> c]] : c \in {"Hi there", PyNone} }

ChoiceLists == UNION { [1..n -> Choices] : n \in 0..MaxChoices }

\* ... or an exception out of the client library
RemoteErrors ==
    { Raised("AuthenticationError", "Error code: 401"),
      Raised("RateLimitError", "Error code: 429"),
      Raised("BadRequestError", "Error code: 400"),
      Raised("APITimeoutError", "Request timed out."),
      Raised("APIConnectionError", "Connection error."),
      Raised("Exception", "unexpected") }

\* main.py:111-126: validation, the two precondition checks, the remote call
chat_with_openai_call ==
    /\ \E body \in ChatBodies :
         /\ Begin("/chat", body)
         /\ IF ~WellFormed(body)
            THEN /\ Finish(ValidationError)
                 /\ local' = NoLocal
                 /\ remote_log' = <<>>
            ELSE IF ~Truthy(openai_api_key)
            THEN /\ Finish(ErrorResponse(ChatExcept(
                       HTTPException(500, <<"OpenAI API key not configured">>))))
                 /\ local' = NoLocal
                 /\ remote_log' = <<>>
            ELSE IF openai_client = NoneObj
            THEN /\ Finish(ErrorResponse(ChatExcept(
                       HTTPException(500, <<"OpenAI client not initialized">>))))
                 /\ local' = NoLocal
                 /\ remote_log' = <<>>
            ELSE LET chat_request == ChatRequest(body)
                     messages == ToMessages(chat_request.messages)
                 IN  /\ local' = [NoLocal EXCEPT !.messages = messages]
                     /\ remote_log' = CallRemote(<<>>,
                            [ model |-> chat_request.model,
                              messages |-> messages,
                              max_tokens |-> chat_request.max_tokens,
                              temperature |-> chat_request.temperature ])
                     /\ pc' = "chat_await"
                     /\ response' = NoResponse
    /\ remote_outcome' = NoOutcome
    /\ UNCHANGED <<environ, openai_api_key, openai_client, user_data, pdf_file>>

\* main.py:128-129: the call returned; choices[0] of an empty list is an
\* IndexError, which the last except clause takes
chat_with_openai_return ==
    /\ pc = "chat_await"
    /\ \E choices \in ChoiceLists :
         /\ remote_outcome' = [kind |-> "returned", choices |-> choices]
         /\ IF choices = <<>>
            THEN Finish(ErrorResponse(ChatExcept(
                     Raised("IndexError", "list index out of range"))))
            ELSE Finish(OkResponse([response |-> choices[1].message.content]))
    /\ UNCHANGED <<environ, openai_api_key, openai_client, user_data, pdf_file,
                   request, local, remote_log>>

\* main.py:130-137: the call raised
chat_with_openai_raise ==
    /\ pc = "chat_await"
    /\ \E exc \in RemoteErrors :
         /\ remote_outcome' = [kind |-> "raised", exc |-> exc]
         /\ Finish(ErrorResponse(ChatExcept(exc)))
    /\ UNCHANGED <<environ, openai_api_key, openai_client, user_data, pdf_file,
                   request, local, remote_log>>

-----------------------------------------------------------------------------
(* The file at PDF_FILE_PATH belongs to the operator of the server, who may
   replace or remove it at any time. *)

WriteFile ==
    /\ \E bytes \in FileContents :
         /\ pdf_file # File(bytes)
         /\ pdf_file' = File(bytes)
    /\ UNCHANGED <<environ, openai_api_key, openai_client, user_data, pc, request,
                   local, remote_log, remote_outcome, response>>

DeleteFile ==
    /\ pdf_file.exists
    /\ pdf_file' = NoFile
    /\ UNCHANGED <<environ, openai_api_key, openai_client, user_data, pc, request,
                   local, remote_log, remote_outcome, response>>

-----------------------------------------------------------------------------

Next ==
    \/ health_check
    \/ welcome
    \/ get_user_data
    \/ get_pdf_base64_check
    \/ get_pdf_base64_read
    \/ chat_with_openai_call
    \/ chat_with_openai_return
    \/ chat_with_openai_raise
    \/ WriteFile
    \/ DeleteFile

Spec == Init /\ [][Next]_vars

-----------------------------------------------------------------------------
(* Vocabulary of the properties *)

\* the handler of a request to route has finished and its response is out
Delivered(route) == pc = "idle" /\ request.route = route

HasDetail(resp) == "detail" \in DOMAIN resp.body

ValidRoles == {"user", "assistant", "system"}

HasInvalidRole(body) ==
    /\ WellFormed(body)
    /\ \E i \in 1..Len(body.messages) : body.messages[i].role \notin ValidRoles

\* a step of one of the route handlers, as opposed to a step of the world
HandlerStep ==
    \/ health_check
    \/ welcome
    \/ get_user_data
    \/ get_pdf_base64_check
    \/ get_pdf_base64_read
    \/ chat_with_openai_call
    \/ chat_with_openai_return
    \/ chat_with_openai_raise

\* the client's side of /pdf: standard base64 decoding of a string, by the
\* position of each character in the RFC 4648 alphabet; <<-1>> stands for
\* the decoder's error on a string that is not whole padded groups
StdAlphabet == Upper \o Lower \o Digits \o <<"+", "/">>

B64Value(ch) ==
    IF \E v \in 1..64 : StdAlphabet[v] = ch
    THEN (CHOOSE v \in 1..64 : StdAlphabet[v] = ch) - 1
    ELSE 0

DecodeGroup(q) ==
    LET pad == Cardinality({ i \in 1..4 : q[i] = "=" })
        n == B64Value(q[1]) * 262144 + B64Value(q[2]) * 4096
             + B64Value(q[3]) * 64 + B64Value(q[4])
    IN  SubSeq(<<n \div 65536, (n \div 256) % 256, n % 256>>, 1, 3 - pad)

RECURSIVE b64decode(_)
b64decode(chars) ==
    IF chars = <<>> THEN <<>>
    ELSE IF Len(chars) < 4 THEN <<-1>>
    ELSE DecodeGroup(SubSeq(chars, 1, 4)) \o b64decode(SubSeq(chars, 5, Len(chars)))

-----------------------------------------------------------------------------
(* C1: a GET /pdf handled while no file exists at the configured path is
   answered with status 404 and a detail that contains the path. *)
C1_PdfMissingIs404 ==
    (Delivered("/pdf") /\ ~local.path_exists) =>
        /\ response.status_code = 404
        /\ Contains(response.body.detail, PDF_FILE_PATH)

(* C2: a well-formed POST /chat handled while no API key is configured is
   answered with status 500 and the detail "OpenAI API key not configured",
   nothing before or after it, and the remote service is not invoked. *)
C2_NoKeyIsExact500 ==
    (Delivered("/chat") /\ WellFormed(request.body) /\ ~Truthy(openai_api_key)) =>
        /\ response.status_code = 500
        /\ response.body.detail = <<"OpenAI API key not configured">>
        /\ remote_log = <<>>

(* C3: when the remote call raises an authentication failure the response
   is 401 "Invalid OpenAI API key", when it raises a rate-limit failure the
   response is 429 "OpenAI API rate limit exceeded"; neither is turned into
   a 500 by the APIError clause or the catch-all, although both classes
   derive from APIError. *)
C3_AuthAndRateLimitMapped ==
    (Delivered("/chat") /\ remote_outcome.kind = "raised") =>
        /\ IsInstance(remote_outcome.exc, "AuthenticationError") =>
             /\ response.status_code = 401
             /\ response.body.detail = <<"Invalid OpenAI API key">>
        /\ IsInstance(remote_outcome.exc, "RateLimitError") =>
             /\ response.status_code = 429
             /\ response.body.detail = <<"OpenAI API rate limit exceeded">>

C3_Witness ==
    /\ Delivered("/chat")
    /\ remote_outcome.kind = "raised"
    /\ remote_outcome.exc.cls = "AuthenticationError"
    /\ IsInstance(remote_outcome.exc, "APIError")
    /\ response.status_code = 401

(* C4: a POST /chat invokes the remote completion API at most once; when
   that invocation fails the handler answers with an error and has invoked
   it exactly once; when the key check or the client check fails it has
   invoked it zero times. *)
C4_AtMostOneRemoteCall ==
    /\ Len(remote_log) <= 1
    /\ (/\ Delivered("/chat")
        /\ WellFormed(request.body)
        /\ (~Truthy(openai_api_key) \/ openai_client = NoneObj)) =>
           remote_log = <<>>
    /\ (/\ Delivered("/chat")
        /\ \/ remote_outcome.kind = "raised"
           \/ (remote_outcome.kind = "returned" /\ remote_outcome.choices = <<>>)) =>
           /\ Len(remote_log) = 1
           /\ response.status_code >= 400

C4_Witness ==
    /\ Delivered("/chat")
    /\ remote_outcome.kind = "raised"
    /\ Len(remote_log) = 1
    /\ response.status_code = 500

(* C5: a POST /chat whose messages hold a role other than "user",
   "assistant" or "system" is rejected, and the remote completion service
   is never invoked for it. *)
C5_InvalidRoleRejected ==
    (request.route = "/chat" /\ HasInvalidRole(request.body)) =>
        /\ remote_log = <<>>
        /\ pc = "idle" => response.status_code >= 400

(* C6: when GET /pdf answers 200, base64-decoding the data field gives
   exactly the bytes the file holds when the handler reads it, whatever was
   served before and whatever the content, the empty file included. *)
C6_PdfRoundTrip ==
    [][ (pc = "pdf_open" /\ pc' = "idle" /\ response'.status_code = 200) =>
            /\ b64decode(response'.body.data) = pdf_file.content
            /\ local'.pdf_content = pdf_file.content ]_vars

C6_Witness ==
    /\ Delivered("/pdf")
    /\ response.status_code = 200
    /\ Len(local.pdf_content) = 2
    /\ Len(response.body.data) = 4
    /\ b64decode(response.body.data) = local.pdf_content

(* C7: when the key and the client are configured and the remote call
   returns a first choice, the remote API has received the request's
   messages as role/content pairs in the request's order and number, with
   the request's model, max_tokens and temperature (the declared default
   where the request leaves one out), and the response is 200 with a body
   whose only key is response, the content of the first choice. *)
C7_ChatPassThrough ==
    (/\ Delivered("/chat")
     /\ remote_outcome.kind = "returned"
     /\ remote_outcome.choices # <<>>) =>
        LET body == request.body
            args == remote_log[1]
        IN  /\ Len(remote_log) = 1
            /\ DOMAIN args = {"model", "messages", "max_tokens", "temperature"}
            /\ Len(args.messages) = Len(body.messages)
            /\ \A i \in 1..Len(body.messages) :
                 /\ DOMAIN args.messages[i] = {"role", "content"}
                 /\ args.messages[i].role = body.messages[i].role
                 /\ args.messages[i].content = body.messages[i].content
            /\ args.model = IF "model" \in DOMAIN body THEN body.model ELSE DefaultModel
            /\ args.max_tokens = IF "max_tokens" \in DOMAIN body THEN body.max_tokens
                                 ELSE DefaultMaxTokens
            /\ args.temperature = IF "temperature" \in DOMAIN body THEN body.temperature
                                  ELSE DefaultTemperature
            /\ response.status_code = 200
            /\ DOMAIN response.body = {"response"}
            /\ response.body.response = remote_outcome.choices[1].message.content

C7_Witness ==
    /\ Delivered("/chat")
    /\ remote_outcome.kind = "returned"
    /\ Len(remote_outcome.choices) = 2
    /\ remote_outcome.choices[1] # remote_outcome.choices[2]
    /\ Len(request.body.messages) = 2
    /\ request.body.messages[1].role = "system"
    /\ request.body.messages[2].role = "user"
    /\ "model" \notin DOMAIN request.body
    /\ response.status_code = 200
    /\ response.body.response = "Hi there"

(* C8: GET /health never answers with an error: whatever the file, the key
   and the client are, it answers 200 with success true, pdf_exists equal
   to whether the file exists when it is called and openai_configured equal
   to whether a non-empty API key is configured. *)
C8_HealthAlwaysSucceeds ==
    [][ health_check =>
            /\ response'.status_code = 200
            /\ response'.body.success = TRUE
            /\ response'.body.pdf_exists = pdf_file.exists
            /\ response'.body.openai_configured = (openai_api_key \notin {PyNone, ""}) ]_vars

C8_Witness ==
    /\ Delivered("/health")
    /\ response.status_code = 200
    /\ response.body.success
    /\ ~response.body.pdf_exists
    /\ ~response.body.openai_configured
    /\ openai_client = NoneObj

(* C9: no step of any request handler changes the process environment, the
   configured API key, the client instance, the static user data or the
   PDF file, in any sequence of /health, /, /user, /pdf and /chat requests
   interleaved with changes to the file from outside. *)
C9_HandlersLeaveProcessState ==
    [][ HandlerStep =>
            UNCHANGED <<environ, openai_api_key, openai_client, user_data, pdf_file>> ]_vars

C9_Witness ==
    /\ Delivered("/pdf")
    /\ response.status_code = 200
    /\ local.pdf_content # <<>>
    /\ pdf_file = File(local.pdf_content)
    /\ openai_client # NoneObj
    /\ user_data = UserDataModule

(* C10: in every reachable state the client instance is absent exactly when
   no non-empty API key is configured, so the key check of /chat fires
   whenever the client check would, and no response carries the
   "OpenAI client not initialized" outcome. *)
C10_ClientIffKey ==
    /\ (openai_client = NoneObj) <=> (openai_api_key \in {PyNone, ""})
    /\ HasDetail(response) =>
         ~Contains(response.body.detail, "OpenAI client not initialized")

C10_Witness ==
    /\ Delivered("/chat")
    /\ WellFormed(request.body)
    /\ openai_client = NoneObj
    /\ openai_api_key = ""
    /\ response.status_code = 500
    /\ Contains(response.body.detail, "OpenAI API key not configured")

====
